---- MODULE Spec2Model ----
(***************************************************************************)
(* Item & User API: the in-memory item list and user dictionary of         *)
(* main.py, and the UserService / UserRepository pair over the "users"     *)
(* table.  Each HTTP handler and each service call is one atomic action;   *)
(* the request it served, its response and the store before it are kept    *)
(* so that the properties can speak about "the request just served".       *)
(***************************************************************************)
EXTENDS Integers, Sequences, FiniteSets, TLC

VARIABLES
    items_db,       \* main.py items_db: the list of Item records
    items_before,   \* items_db as it was before the request just served
    item_req,       \* the /items request just served
    item_resp,      \* its response
    deleted_max,    \* the id the request before it removed, if that was the
                    \* highest id of the list then; 0 otherwise
    users_db,       \* main.py users_db: username -> UserInDB
    users_before,   \* users_db as it was before the request just served
    auth_req,       \* the /register or /login request just served
    auth_resp,      \* its response
    accepted,       \* history: <<username, password>> of every /register answered 201
    users_table,    \* the committed rows of the "users" table
    table_before,   \* users_table as it was before the call just made
    svc_call,       \* the UserService / UserRepository call just made
    svc_result,     \* what it returned or raised
    svc_effects,    \* how often that call ran the hasher and db.commit()
    sessions,       \* the create_user calls in progress, one per db session
    db_requests,    \* database.py get_db: per request, where its generator
                    \* stands and how often its session was opened and closed
    threads         \* main.py handlers running side by side in the threadpool:
                    \* per thread, its request, its position and its locals

item_vars == <<items_db, items_before, item_req, item_resp, deleted_max>>

auth_vars == <<users_db, users_before, auth_req, auth_resp, accepted>>

svc_vars == <<users_table, table_before, svc_call, svc_result, svc_effects,
              sessions>>

conc_vars == <<db_requests, threads>>

vars == <<items_db, items_before, item_req, item_resp, deleted_max,
          users_db, users_before, auth_req, auth_resp, accepted,
          users_table, table_before, svc_call, svc_result, svc_effects,
          sessions, db_requests, threads>>

\* Python's None, for Optional[str] fields and absent results.
None == "None"

(***************************************************************************)
(* Bounds and inputs                                                       *)
(***************************************************************************)
\* POST /items is not taken once the next id would exceed this.
MaxItemId == 5

\* Ids a client may put in the path: present ones, 0, and one past the cap.
PathIds == 0 .. (MaxItemId + 1)

\* CreateItem bodies (description is Optional).
ItemPayloads ==
    { [name |-> "Monitor", description |-> "4K"],
      [name |-> "Monitor Pro", description |-> None] }

\* Salts the hasher may draw for one digest.
NumSalts == 2

Salts == 1 .. NumSalts

Usernames == {"alice", "bob", "carol"}

\* UserBase.email is Optional.
Emails == {None, "a@example.com"}

\* Passwords, as sequences of characters: two that pass password_complexity
\* and one that does not (no uppercase letter).
PwFirst == <<"P", "a", "s", "s", "w", "0", "r", "d">>

PwSecond == <<"S", "e", "c", "r", "e", "t", "9", "9">>

PwWeak == <<"p", "a", "s", "s", "w", "o", "r", "d", "1", "2", "3">>

Passwords == {PwFirst, PwSecond, PwWeak}

\* The store hands out user ids from 1 .. MaxUserId.
MaxUserId == 2

UserIds == 1 .. MaxUserId

\* Values a caller may pass for username ("" is falsy in Python) and email.
SvcUsernames == {"", "alice", "bob"}

SvcEmails == {"a@example.com", "b@example.com"}

\* One password suffices here: every hash draws a salt, so re-hashing it
\* yields either the stored digest or a new one.
SvcPasswords == {PwFirst}

\* The salts the hasher draws in the service and repository runs: a re-hash
\* draws either the salt of the stored digest or another one, and two salts
\* give both cases.
SvcSalts == {1, 2}

(***************************************************************************)
(* The item store and its handlers                                         *)
(***************************************************************************)
Item(id, data) == [id |-> id, name |-> data.name, description |-> data.description]

SeedItems ==
    << [id |-> 1, name |-> "Laptop", description |-> "High-performance laptop"],
       [id |-> 2, name |-> "Mouse", description |-> "Wireless optical mouse"],
       [id |-> 3, name |-> "Keyboard", description |-> "Mechanical keyboard"] >>

SetMax(S) == CHOOSE m \in S : \A x \in S : x <= m

ItemIds(items) == { items[i].id : i \in DOMAIN items }

\* A plausible slip: the next id taken from the length of the list.
get_next_item_id_by_len(items) == Len(items) + 1

get_next_item_id(items) ==
    IF items # <<>> THEN SetMax(ItemIds(items)) + 1 ELSE 1

\* next((index for index, item in enumerate(items_db) if item.id == item_id), None)
\* 0 stands for None (indices here start at 1).
item_index(items, item_id) ==
    IF \E i \in DOMAIN items : items[i].id = item_id
    THEN CHOOSE i \in DOMAIN items :
            /\ items[i].id = item_id
            /\ \A j \in 1 .. (i - 1) : items[j].id # item_id
    ELSE 0

HTTPException(code, detail) == [status |-> code, body |-> [detail |-> detail]]

NotFound == HTTPException(404, "Item not found")

RemoveAt(s, i) == SubSeq(s, 1, i - 1) \o SubSeq(s, i + 1, Len(s))

\* GET /items/{item_id}: the first item with that id, or 404.
read_item(items, item_id) ==
    LET i == item_index(items, item_id)
    IN  IF i = 0 THEN NotFound ELSE [status |-> 200, body |-> items[i]]

\* A plausible slip: the new item is inserted at the head of the list.
add_item_front(items, data) ==
    LET new_item == Item(get_next_item_id(items), data)
    IN  [items |-> <<new_item>> \o items,
         resp  |-> [status |-> 201, body |-> new_item]]

\* A plausible slip: the new item takes the lowest id that is not in use.
add_item_lowest_free(items, data) ==
    LET new_item == Item(CHOOSE n \in 1 .. (Len(items) + 1) :
                            /\ n \notin ItemIds(items)
                            /\ \A m \in 1 .. (n - 1) : m \in ItemIds(items),
                         data)
    IN  [items |-> Append(items, new_item),
         resp  |-> [status |-> 201, body |-> new_item]]

\* POST /items: the handler's result as [items, resp].
add_item(items, data) ==
    LET new_item == Item(get_next_item_id(items), data)
    IN  [items |-> Append(items, new_item),
         resp  |-> [status |-> 201, body |-> new_item]]

\* A plausible slip: the edited item is removed and re-added at the end.
edit_item_moving(items, item_id, data) ==
    LET i == item_index(items, item_id)
    IN  IF i = 0
        THEN [items |-> items, resp |-> NotFound]
        ELSE [items |-> Append(RemoveAt(items, i), Item(item_id, data)),
              resp  |-> [status |-> 200, body |-> Item(item_id, data)]]

\* A plausible slip: PUT on an absent id creates the item (an upsert).
edit_item_upsert(items, item_id, data) ==
    LET i == item_index(items, item_id)
    IN  IF i = 0
        THEN [items |-> Append(items, Item(item_id, data)), resp |-> NotFound]
        ELSE [items |-> [items EXCEPT ![i] = Item(item_id, data)],
              resp  |-> [status |-> 200, body |-> Item(item_id, data)]]

\* PUT /items/{item_id}
edit_item(items, item_id, data) ==
    LET i == item_index(items, item_id)
    IN  IF i = 0
        THEN [items |-> items, resp |-> NotFound]
        ELSE [items |-> [items EXCEPT ![i] = Item(item_id, data)],
              resp  |-> [status |-> 200, body |-> Item(item_id, data)]]

\* A plausible slip: the last element is removed instead of the one found.
delete_item_last(items, item_id) ==
    LET i == item_index(items, item_id)
    IN  IF i = 0
        THEN [items |-> items, resp |-> NotFound]
        ELSE [items |-> RemoveAt(items, Len(items)),
              resp  |-> [status |-> 204, body |-> None]]

\* DELETE /items/{item_id}
delete_item(items, item_id) ==
    LET i == item_index(items, item_id)
    IN  IF i = 0
        THEN [items |-> items, resp |-> NotFound]
        ELSE [items |-> RemoveAt(items, i),
              resp  |-> [status |-> 204, body |-> None]]

(***************************************************************************)
(* Actions: one per request                                                *)
(***************************************************************************)
ItemRequest(method, item_id, data) ==
    [method |-> method, item_id |-> item_id, data |-> data]

NoItemRequest == ItemRequest("NONE", 0, None)

InitItems ==
    /\ items_db = SeedItems
    /\ items_before = SeedItems
    /\ item_req = NoItemRequest
    /\ item_resp = [status |-> 0, body |-> None]
    /\ deleted_max = 0

\* The request just served was a DELETE that removed the item with the
\* highest id.
DeletedMax ==
    /\ item_req.method = "DELETE"
    /\ item_resp.status = 204
    /\ item_req.item_id = SetMax(ItemIds(items_before))

Served(req, out) ==
    /\ deleted_max' = IF DeletedMax THEN item_req.item_id ELSE 0
    /\ items_before' = items_db
    /\ item_req' = req
    /\ items_db' = out.items
    /\ item_resp' = out.resp
    /\ UNCHANGED <<auth_vars, svc_vars, conc_vars>>

PostItem ==
    \E data \in ItemPayloads :
        /\ get_next_item_id(items_db) <= MaxItemId
        /\ Served(ItemRequest("POST", 0, data), add_item(items_db, data))

PutItem ==
    \E item_id \in PathIds, data \in ItemPayloads :
        Served(ItemRequest("PUT", item_id, data), edit_item(items_db, item_id, data))

DeleteItem ==
    \E item_id \in PathIds :
        Served(ItemRequest("DELETE", item_id, None), delete_item(items_db, item_id))

GetItem ==
    \E item_id \in PathIds :
        Served(ItemRequest("GET", item_id, None),
               [items |-> items_db, resp |-> read_item(items_db, item_id)])

NextItems == PostItem \/ PutItem \/ DeleteItem \/ GetItem

(***************************************************************************)
(* Password hashing, the user dictionary and the /register and /login      *)
(* handlers                                                                *)
(***************************************************************************)
UpperCase ==
    {"A", "B", "C", "D", "E", "F", "G", "H", "I", "J", "K", "L", "M",
     "N", "O", "P", "Q", "R", "S", "T", "U", "V", "W", "X", "Y", "Z"}

LowerCase ==
    {"a", "b", "c", "d", "e", "f", "g", "h", "i", "j", "k", "l", "m",
     "n", "o", "p", "q", "r", "s", "t", "u", "v", "w", "x", "y", "z"}

Digits == {"0", "1", "2", "3", "4", "5", "6", "7", "8", "9"}

HasCharIn(v, class) == \E i \in DOMAIN v : v[i] \in class

\* UserCreate.password_complexity: the message of the ValueError raised, or
\* None when the password is returned unchanged.
password_complexity(v) ==
    IF Len(v) < 8 THEN "Password must be at least 8 characters long"
    ELSE IF ~HasCharIn(v, UpperCase)
         THEN "Password must contain at least one uppercase letter"
    ELSE IF ~HasCharIn(v, LowerCase)
         THEN "Password must contain at least one lowercase letter"
    ELSE IF ~HasCharIn(v, Digits)
         THEN "Password must contain at least one digit"
    ELSE None

\* The bcrypt checksum of a password under a salt (one-way, injective here).
Checksum(salt, password) == <<"bcrypt", salt, password>>

\* pwd_context.hash: a digest carrying the salt it was drawn with.
get_password_hash(password, salt) ==
    [salt |-> salt, checksum |-> Checksum(salt, password)]

\* A plausible slip: only the salt of the digest is compared.
verify_password_salt_only(plain_password, hashed_password) ==
    hashed_password.salt \in Salts

\* pwd_context.verify: hash the candidate under the digest's salt and compare.
verify_password(plain_password, hashed_password) ==
    Checksum(hashed_password.salt, plain_password) = hashed_password.checksum

\* users_db.get(username): an Optional[UserInDB], as the sequence of zero or
\* one records (<<>> is Python's None; a record is always truthy).
get_user(db, username) ==
    IF username \in DOMAIN db THEN <<db[username]>> ELSE <<>>

UserBase(u) == [username |-> u.username, email |-> u.email, full_name |-> u.full_name]

\* create_user_in_db: the dictionary after users_db[user.username] = user_in_db.
create_user_in_db(db, user, salt) ==
    LET user_in_db ==
            [username |-> user.username, email |-> user.email,
             full_name |-> user.full_name,
             hashed_password |-> get_password_hash(user.password, salt)]
    IN  [k \in DOMAIN db \cup {user.username} |->
            IF k = user.username THEN user_in_db ELSE db[k]]

HTTPExceptionH(code, detail, headers) ==
    [status |-> code, body |-> [detail |-> detail], headers |-> headers]

\* A plausible slip: the check for an existing username is missing.
register_user_overwrite(db, user_data, salt) ==
    [users |-> create_user_in_db(db, user_data, salt),
     resp  |-> [status |-> 201, body |-> UserBase(user_data), headers |-> None]]

\* The /register handler, on a validated UserCreate.
register_user(db, user_data, salt) ==
    IF get_user(db, user_data.username) # <<>>
    THEN [users |-> db,
          resp  |-> HTTPExceptionH(400, "Username already registered", None)]
    ELSE [users |-> create_user_in_db(db, user_data, salt),
          resp  |-> [status |-> 201, body |-> UserBase(user_data), headers |-> None]]

\* POST /register: the body is validated as a UserCreate (422 when the
\* password validator raises) and then handed to the handler.
post_register(db, body, salt) ==
    IF password_complexity(body.password) # None
    THEN [users |-> db,
          resp  |-> HTTPExceptionH(422, password_complexity(body.password), None)]
    ELSE register_user(db, body, salt)

Unauthorized ==
    HTTPExceptionH(401, "Incorrect username or password",
                   [WWW_Authenticate |-> "Bearer"])

\* A plausible slip: the unknown-user branch names its cause.
login_user_leaky(db, cred) ==
    LET db_user == get_user(db, cred.username)
    IN  IF db_user = <<>>
        THEN HTTPExceptionH(401, "User not found", [WWW_Authenticate |-> "Bearer"])
        ELSE IF ~verify_password(cred.password, db_user[1].hashed_password)
        THEN Unauthorized
        ELSE [status |-> 200,
              body |-> [message |-> <<"Login successful for user: ", db_user[1].username>>],
              headers |-> None]

\* POST /login: the response (the handler writes nothing).
login_user(db, cred) ==
    LET db_user == get_user(db, cred.username)
    IN  IF db_user = <<>>
        THEN HTTPExceptionH(401, "Incorrect username or password",
                            [WWW_Authenticate |-> "Bearer"])
        ELSE IF ~verify_password(cred.password, db_user[1].hashed_password)
        THEN HTTPExceptionH(401, "Incorrect username or password",
                            [WWW_Authenticate |-> "Bearer"])
        ELSE [status |-> 200,
              body |-> [message |-> <<"Login successful for user: ", db_user[1].username>>],
              headers |-> None]

EmptyUsers == [k \in {} |-> None]

InitAuth ==
    /\ users_db = EmptyUsers
    /\ users_before = EmptyUsers
    /\ auth_req = [kind |-> "NONE"]
    /\ auth_resp = [status |-> 0, body |-> None, headers |-> None]
    /\ accepted = {}

Register ==
    \E username \in Usernames, email \in Emails, password \in Passwords, salt \in Salts :
        LET body == [username |-> username, email |-> email,
                     full_name |-> None, password |-> password]
            out == post_register(users_db, body, salt)
        IN  /\ users_before' = users_db
            /\ auth_req' = [kind |-> "register", username |-> username,
                            email |-> email, password |-> password]
            /\ users_db' = out.users
            /\ auth_resp' = out.resp
            /\ accepted' = IF out.resp.status = 201
                           THEN accepted \cup {<<username, password>>}
                           ELSE accepted
            /\ UNCHANGED <<item_vars, svc_vars, conc_vars>>

Login ==
    \E username \in Usernames, password \in Passwords :
        LET cred == [username |-> username, password |-> password]
        IN  /\ users_before' = users_db
            /\ auth_req' = [kind |-> "login", username |-> username,
                            password |-> password]
            /\ auth_resp' = login_user(users_db, cred)
            /\ UNCHANGED <<users_db, accepted>>
            /\ UNCHANGED <<item_vars, svc_vars, conc_vars>>

NextAuth == Register \/ Login


(***************************************************************************)
(* The "users" table, UserRepository and UserService.  A call is atomic;   *)
(* when it raises, the caller rolls the session back (seed.py), so the     *)
(* table is the committed state before the call.                           *)
(***************************************************************************)
UserRow(id, username, email, full_name, hashed_password, is_active) ==
    [id |-> id, username |-> username, email |-> email, full_name |-> full_name,
     hashed_password |-> hashed_password, is_active |-> is_active]

\* A plausible slip: the username column is declared without unique=True.
ConstraintViolation_email_only(rows) ==
    \E r1, r2 \in rows : r1 # r2 /\ (r1.id = r2.id \/ r1.email = r2.email)

\* The table's constraints (models.py): id is the primary key, username and
\* email are unique.  TRUE when the rows break one of them.
ConstraintViolation(rows) ==
    \E r1, r2 \in rows :
        /\ r1 # r2
        /\ \/ r1.id = r2.id
           \/ r1.username = r2.username
           \/ r1.email = r2.email

Raised(exception, message) == [raised |-> exception, message |-> message]

Returned(value) == [returned |-> value]

\* .filter(...).first(): the sequence of zero or one rows.
First(rows) == IF rows = {} THEN <<>> ELSE <<CHOOSE r \in rows : TRUE>>

get_by_id(table, user_id) == First({ r \in table : r.id = user_id })

get_by_username(table, username) == First({ r \in table : r.username = username })

get_by_email(table, email) == First({ r \in table : r.email = email })

\* An Optional argument is the sequence of zero or one values: <<>> is
\* Python's None, <<v>> the value v.  Python truthiness of an Optional[str].
Truthy(value) == value # <<>> /\ value[1] # ""

\* What the driver raises when commit breaks a unique constraint.
IntegrityError == Raised("IntegrityError", <<"UNIQUE constraint failed">>)

\* What a call did besides its result: runs of the hasher, calls of commit.
Outcome(table, result, hashes, commits) ==
    [table |-> table, result |-> result, hashes |-> hashes, commits |-> commits]

\* A plausible slip: the table is written without its constraints.
commit_unchecked(table, rows, value) ==
    Outcome(rows, Returned(value), 0, 1)

\* db.commit() of `rows`: the rows are stored unless a constraint fails.
commit(table, rows, value) ==
    IF ConstraintViolation(rows)
    THEN Outcome(table, IntegrityError, 0, 1)
    ELSE Outcome(rows, Returned(value), 0, 1)

\* UserRepository.add; new_id is the id the store assigns.
repo_add(table, username, email, password, salt, new_id) ==
    LET db_user == UserRow(new_id, username, email, None,
                           get_password_hash(password, salt), TRUE)
    IN  [commit(table, table \cup {db_user}, db_user) EXCEPT !.hashes = 1]

\* **kwargs is the sequence of <<key, Optional value>> pairs in the order the
\* caller wrote them; keys are distinct.
Keys(kwargs) == { kwargs[i][1] : i \in DOMAIN kwargs }

\* kwargs.get(key)
kwargs_get(kwargs, key) ==
    IF key \in Keys(kwargs)
    THEN kwargs[CHOOSE i \in DOMAIN kwargs : kwargs[i][1] = key][2]
    ELSE <<>>

\* The keys for which hasattr(user, key) holds: the columns of User.
UserAttributes ==
    {"id", "username", "email", "full_name", "hashed_password", "is_active"}

\* A plausible slip: the loop accepts the two writable profile columns only.
update_field_guarded(st, key, value, salt) ==
    IF key \in {"username", "email"} /\ value # <<>> /\ st.user[key] # value[1]
    THEN [st EXCEPT !.user = [@ EXCEPT ![key] = value[1]], !.updated = TRUE]
    ELSE st

\* One pass of the body of the loop of UserRepository.update, on
\* st = [user, updated, hashes].
update_field(st, key, value, salt) ==
    IF key = "password"
    THEN IF value # <<>>
         THEN LET new_hashed_password == get_password_hash(value[1], salt)
              IN  IF new_hashed_password # st.user.hashed_password
                  THEN [user |-> [st.user EXCEPT
                                     !.hashed_password = new_hashed_password],
                        updated |-> TRUE,
                        hashes |-> st.hashes + 1]
                  ELSE [st EXCEPT !.hashes = @ + 1]
         ELSE st
    ELSE IF key \in UserAttributes /\ value # <<>>
    THEN IF st.user[key] # value[1]
         THEN [st EXCEPT !.user = [@ EXCEPT ![key] = value[1]], !.updated = TRUE]
         ELSE st
    ELSE st

\* for key, value in kwargs.items(): ...
RECURSIVE update_loop(_, _, _)
update_loop(st, kwargs, salt) ==
    IF kwargs = <<>>
    THEN st
    ELSE update_loop(update_field(st, Head(kwargs)[1], Head(kwargs)[2], salt),
                     Tail(kwargs), salt)

\* A plausible slip: the commit is made whether or not a field changed.
repo_update_always_commits(table, user, kwargs, salt) ==
    LET st == update_loop([user |-> user, updated |-> FALSE, hashes |-> 0],
                          kwargs, salt)
    IN  [commit(table, (table \ {user}) \cup {st.user}, st.user)
            EXCEPT !.hashes = st.hashes]

\* UserRepository.update: the loop, then one commit if a field changed.
repo_update(table, user, kwargs, salt) ==
    LET st == update_loop([user |-> user, updated |-> FALSE, hashes |-> 0],
                          kwargs, salt)
    IN  IF st.updated
        THEN [commit(table, (table \ {user}) \cup {st.user}, st.user)
                 EXCEPT !.hashes = st.hashes]
        ELSE Outcome(table, Returned(st.user), st.hashes, 0)

\* A plausible slip: the delete is issued without its filter on the id.
repo_delete_unfiltered(table, user_id) ==
    LET db_user == get_by_id(table, user_id)
    IN  IF db_user # <<>>
        THEN Outcome({}, Returned(TRUE), 0, 1)
        ELSE Outcome(table, Returned(FALSE), 0, 0)

\* UserRepository.delete
repo_delete(table, user_id) ==
    LET db_user == get_by_id(table, user_id)
    IN  IF db_user # <<>>
        THEN Outcome(table \ {db_user[1]}, Returned(TRUE), 0, 1)
        ELSE Outcome(table, Returned(FALSE), 0, 0)

UsernameIsTaken(username) == Raised("ValueError", <<"Username is already taken", username>>)

EmailIsRegistered(email) == Raised("ValueError", <<"Email is already registered", email>>)

\* A plausible slip: the two pre-checks are made in the other order.
create_user_email_first(table, username, email, password, salt, new_id) ==
    IF get_by_email(table, email) # <<>>
    THEN Outcome(table, EmailIsRegistered(email), 0, 0)
    ELSE IF get_by_username(table, username) # <<>>
    THEN Outcome(table, UsernameIsTaken(username), 0, 0)
    ELSE repo_add(table, username, email, password, salt, new_id)

\* UserService.create_user
create_user(table, username, email, password, salt, new_id) ==
    IF get_by_username(table, username) # <<>>
    THEN Outcome(table, UsernameIsTaken(username), 0, 0)
    ELSE IF get_by_email(table, email) # <<>>
    THEN Outcome(table, EmailIsRegistered(email), 0, 0)
    ELSE repo_add(table, username, email, password, salt, new_id)

UsernameTaken(table, user, user_id, new_username) ==
    /\ Truthy(new_username)
    /\ new_username[1] # user.username
    /\ LET existing == get_by_username(table, new_username[1])
       IN  existing # <<>> /\ existing[1].id # user_id

EmailTaken(table, user, user_id, new_email) ==
    /\ Truthy(new_email)
    /\ new_email[1] # user.email
    /\ LET existing == get_by_email(table, new_email[1])
       IN  existing # <<>> /\ existing[1].id # user_id

\* UserService.update_user
update_user(table, user_id, kwargs, salt) ==
    LET user_to_update == get_by_id(table, user_id)
        new_username == kwargs_get(kwargs, "username")
        new_email == kwargs_get(kwargs, "email")
    IN  IF user_to_update = <<>>
        THEN Outcome(table, Returned(None), 0, 0)
        ELSE IF UsernameTaken(table, user_to_update[1], user_id, new_username)
        THEN Outcome(table, UsernameIsTaken(new_username[1]), 0, 0)
        ELSE IF EmailTaken(table, user_to_update[1], user_id, new_email)
        THEN Outcome(table, EmailIsRegistered(new_email[1]), 0, 0)
        ELSE repo_update(table, user_to_update[1], kwargs, salt)

\* UserService.delete_user
delete_user(table, user_id) ==
    IF get_by_id(table, user_id) = <<>>
    THEN Outcome(table, Returned(FALSE), 0, 0)
    ELSE repo_delete(table, user_id)

\* The db sessions (one per request) that call create_user side by side.
Sessions == {1, 2}

\* A session that has not called yet.
Idle ==
    [pc |-> "idle", username |-> None, email |-> None, passed |-> FALSE,
     result |-> Returned(None)]

InitUsers ==
    /\ users_table = {}
    /\ table_before = {}
    /\ svc_call = [op |-> "NONE"]
    /\ svc_result = Returned(None)
    /\ svc_effects = [hashes |-> 0, commits |-> 0]
    /\ sessions = [s \in Sessions |-> Idle]

Called(call, out) ==
    /\ table_before' = users_table
    /\ svc_call' = call
    /\ users_table' = out.table
    /\ svc_result' = out.result
    /\ svc_effects' = [hashes |-> out.hashes, commits |-> out.commits]
    /\ UNCHANGED <<item_vars, auth_vars, sessions, conc_vars>>

\* The store assigns an id that no stored row has.
FreeIds(table) == UserIds \ { r.id : r \in table }

\* create_user raises before the hasher and the store are reached when the
\* username or the email is found; the salt and the id are drawn otherwise.
CreateUser ==
    \E username \in SvcUsernames, email \in SvcEmails, password \in SvcPasswords :
      LET found == \/ get_by_username(users_table, username) # <<>>
                   \/ get_by_email(users_table, email) # <<>>
      IN  \E salt \in (IF found THEN {1} ELSE SvcSalts),
             new_id \in (IF found THEN {0} ELSE FreeIds(users_table)) :
            Called([op |-> "create_user", username |-> username, email |-> email,
                    password |-> password],
                   create_user(users_table, username, email, password, salt, new_id))

Optional(S) == {<<>>} \cup { <<v>> : v \in S }

UpdateUser ==
    \E user_id \in UserIds,
       username \in Optional(SvcUsernames), email \in Optional(SvcEmails),
       password \in Optional(SvcPasswords) :
      \E salt \in (IF password = <<>> THEN {1} ELSE SvcSalts) :
        LET kwargs == << <<"username", username>>, <<"email", email>>,
                        <<"password", password>> >>
        IN  Called([op |-> "update_user", user_id |-> user_id, kwargs |-> kwargs],
                   update_user(users_table, user_id, kwargs, salt))

DeleteUser ==
    \E user_id \in UserIds :
        Called([op |-> "delete_user", user_id |-> user_id],
               delete_user(users_table, user_id))

NextUsers == CreateUser \/ UpdateUser \/ DeleteUser

(***************************************************************************)
(* UserRepository called directly, as tests/test_repositories.py does      *)
(***************************************************************************)
\* The most keys a field map of the enumeration carries.
MaxKeys == 2

\* The largest skip and limit of the enumeration.
MaxPage == 2

\* The users the repository is asked to add.
RepoNewUsers ==
    { [username |-> "alice", email |-> "a@example.com"],
      [username |-> "bob", email |-> "b@example.com"] }

\* A string a caller passes as hashed_password: not an output of the hasher.
RawPassword == [raw |-> "hunter2"]

\* The values the enumeration offers for each key of **kwargs; <<>> is None.
\* "nickname" is not an attribute of User.
FieldValues ==
    [email |-> {<<>>, <<"b@example.com">>},
     password |-> Optional(SvcPasswords),
     id |-> {<<MaxUserId>>},
     hashed_password |-> {<<RawPassword>>},
     nickname |-> {<<"al">>}]

\* The sequences of distinct keys, at most MaxKeys long.
KeyOrders ==
    { ks \in UNION { [1..n -> DOMAIN FieldValues] : n \in 0..MaxKeys } :
        \A i, j \in DOMAIN ks : i # j => ks[i] # ks[j] }

\* The two orders in which the enumeration writes the keys of a field map.
\* Python keeps **kwargs in the caller's order; the order matters only when
\* two keys write the same column, as password and hashed_password do, so
\* the orders differ in which of these two comes first.
KeyOrder == <<"email", "password", "id", "hashed_password", "nickname">>

KeyOrderSwapped == <<"email", "hashed_password", "id", "password", "nickname">>

Position(order, key) == CHOOSE a \in DOMAIN order : order[a] = key

RepoKeyOrders ==
    { ks \in KeyOrders :
        \E order \in {KeyOrder, KeyOrderSwapped} :
            \A i, j \in DOMAIN ks :
                i < j => Position(order, ks[i]) < Position(order, ks[j]) }

RepoFieldMaps ==
    UNION { { kwargs \in [DOMAIN ks -> UNION { {ks[i]} \X FieldValues[ks[i]]
                                               : i \in DOMAIN ks }] :
                \A i \in DOMAIN ks : kwargs[i][1] = ks[i] }
            : ks \in RepoKeyOrders }

\* The orders in which a scan without ORDER BY can yield the rows.
ScanOrders(table) ==
    { order \in [1..Cardinality(table) -> table] :
        \A i, j \in DOMAIN order : i # j => order[i] # order[j] }

Min(a, b) == IF a < b THEN a ELSE b

Max(a, b) == IF a < b THEN b ELSE a

\* UserRepository.browse: query(User).offset(skip).limit(limit).all(), run on
\* a scan that yields the rows in `order`.
browse(order, skip, limit) ==
    SubSeq(order, skip + 1, Min(skip + limit, Len(order)))

RepoAdd ==
    \E new \in RepoNewUsers, password \in SvcPasswords, salt \in SvcSalts :
      \E new_id \in FreeIds(users_table) :
        Called([op |-> "add", username |-> new.username, email |-> new.email,
                password |-> password],
               repo_add(users_table, new.username, new.email, password,
                        salt, new_id))

RepoUpdate ==
    \E user \in users_table, kwargs \in RepoFieldMaps :
      \E salt \in (IF kwargs_get(kwargs, "password") = <<>> THEN {1} ELSE SvcSalts) :
        Called([op |-> "update", user |-> user, kwargs |-> kwargs, salt |-> salt],
               repo_update(users_table, user, kwargs, salt))

RepoDelete ==
    \E user_id \in UserIds :
        Called([op |-> "delete", user_id |-> user_id],
               repo_delete(users_table, user_id))

RepoBrowse ==
    \E order \in ScanOrders(users_table), skip \in 0..MaxPage, limit \in 0..MaxPage :
        Called([op |-> "browse", skip |-> skip, limit |-> limit],
               Outcome(users_table, Returned(browse(order, skip, limit)), 0, 0))

NextRepo == RepoAdd \/ RepoUpdate \/ RepoDelete

\* Paging through a store that adds and deletes fill and empty.
NextBrowse == RepoAdd \/ RepoDelete \/ RepoBrowse

(***************************************************************************)
(* UserService.create_user called from two sessions at once                *)
(***************************************************************************)
\* The usernames the racing calls ask for.
RaceUsernames == {"alice", "bob"}

Step(s, session) ==
    /\ sessions' = [sessions EXCEPT ![s] = session]
    /\ UNCHANGED <<item_vars, auth_vars, table_before, svc_call, svc_result,
                   svc_effects, conc_vars>>

\* create_user is entered.
Begin(s) ==
    /\ sessions[s].pc = "idle"
    /\ \E username \in RaceUsernames, email \in SvcEmails :
          Step(s, [Idle EXCEPT !.pc = "check_username",
                               !.username = username, !.email = email])
    /\ UNCHANGED users_table

\* if self.repository.get_by_username(username): raise ValueError(...)
CheckUsername(s) ==
    /\ sessions[s].pc = "check_username"
    /\ IF get_by_username(users_table, sessions[s].username) # <<>>
       THEN Step(s, [sessions[s] EXCEPT
                        !.pc = "done",
                        !.result = UsernameIsTaken(sessions[s].username)])
       ELSE Step(s, [sessions[s] EXCEPT !.pc = "check_email"])
    /\ UNCHANGED users_table

\* if self.repository.get_by_email(email): raise ValueError(...)
CheckEmail(s) ==
    /\ sessions[s].pc = "check_email"
    /\ IF get_by_email(users_table, sessions[s].email) # <<>>
       THEN Step(s, [sessions[s] EXCEPT
                        !.pc = "done",
                        !.result = EmailIsRegistered(sessions[s].email)])
       ELSE Step(s, [sessions[s] EXCEPT !.pc = "add", !.passed = TRUE])
    /\ UNCHANGED users_table

\* self.repository.add(...): the hash, the INSERT and its commit; the store
\* checks its constraints against the rows committed by then.
Add(s) ==
    /\ sessions[s].pc = "add"
    /\ \E password \in SvcPasswords, salt \in SvcSalts,
          new_id \in FreeIds(users_table) :
          LET out == repo_add(users_table, sessions[s].username,
                              sessions[s].email, password, salt, new_id)
          IN  /\ users_table' = out.table
              /\ Step(s, [sessions[s] EXCEPT !.pc = "done",
                                             !.result = out.result])

NextRace == \E s \in Sessions : Begin(s) \/ CheckUsername(s) \/ CheckEmail(s) \/ Add(s)

(***************************************************************************)
(* database.py get_db: the session of a request                            *)
(***************************************************************************)
\* The requests that take a session from get_db.
NumRequests == 3

Requests == 1 .. NumRequests

\* A request whose get_db has not been entered.
NoSession == [pc |-> "idle", opened |-> 0, closed |-> 0, outcome |-> None]

InitDb == db_requests = [r \in Requests |-> NoSession]

\* A plausible slip: db.close() after the yield, without try/finally, so it
\* is skipped when the handler's exception is thrown into the generator.
get_db_exit_unprotected(request) ==
    IF request.outcome = "returned"
    THEN [request EXCEPT !.pc = "ended", !.closed = @ + 1]
    ELSE [request EXCEPT !.pc = "ended"]

\* finally: db.close()
get_db_exit(request) ==
    [request EXCEPT !.pc = "ended", !.closed = @ + 1]

DbStep(r, request) ==
    /\ db_requests' = [db_requests EXCEPT ![r] = request]
    /\ UNCHANGED <<item_vars, auth_vars, svc_vars, threads>>

\* db = SessionLocal(); yield db: the session is handed to the handler.
GetDbEnter(r) ==
    /\ db_requests[r].pc = "idle"
    /\ DbStep(r, [db_requests[r] EXCEPT !.pc = "yielded", !.opened = @ + 1])

\* The handler returns: the generator is resumed after its yield.
HandlerReturns(r) ==
    /\ db_requests[r].pc = "yielded"
    /\ DbStep(r, [db_requests[r] EXCEPT !.pc = "finally", !.outcome = "returned"])

\* The handler raises: the exception is thrown into the generator at its
\* yield.
HandlerRaises(r) ==
    /\ db_requests[r].pc = "yielded"
    /\ DbStep(r, [db_requests[r] EXCEPT !.pc = "finally", !.outcome = "raised"])

GetDbExit(r) ==
    /\ db_requests[r].pc = "finally"
    /\ DbStep(r, get_db_exit(db_requests[r]))

NextDb ==
    \E r \in Requests :
        GetDbEnter(r) \/ HandlerReturns(r) \/ HandlerRaises(r) \/ GetDbExit(r)

(***************************************************************************)
(* main.py handlers running side by side.  The routes are plain `def`      *)
(* functions, which FastAPI runs in a threadpool, and items_db and         *)
(* users_db are module globals without a lock: a thread can be suspended   *)
(* between reading the store and writing it.                               *)
(***************************************************************************)
\* The threads of the pool; each serves one request here.
NumThreads == 2

Threads == 1 .. NumThreads

\* A thread that is serving no request.
IdleThread == [pc |-> "idle"]

InitThreads == threads = [t \in Threads |-> IdleThread]

\* A thread inside an /items handler: `local` is its new_id or item_index,
\* `victim` the id of the item its write replaced or removed (0: none).
ItemThread(pc, method, item_id, data, local, victim, resp) ==
    [pc |-> pc, method |-> method, item_id |-> item_id, data |-> data,
     local |-> local, victim |-> victim, resp |-> resp]

NoResponse == [status |-> 0, body |-> None]

\* An IndexError escaping the handler is answered 500.
InternalServerError == HTTPException(500, "Internal Server Error")

ItemStep(t, thread) ==
    /\ threads' = [threads EXCEPT ![t] = thread]
    /\ UNCHANGED <<items_before, item_req, item_resp, deleted_max,
                   auth_vars, svc_vars, db_requests>>

\* add_item: new_id = get_next_item_id()
AddItemNextId(t) ==
    /\ threads[t].pc = "idle"
    /\ get_next_item_id(items_db) <= MaxItemId
    /\ \E data \in ItemPayloads :
          ItemStep(t, ItemThread("append", "POST", 0, data,
                                 get_next_item_id(items_db), 0, NoResponse))
    /\ UNCHANGED items_db

\* add_item: items_db.append(new_item); return new_item
AddItemAppend(t) ==
    /\ threads[t].pc = "append"
    /\ LET new_item == Item(threads[t].local, threads[t].data)
       IN  /\ items_db' = Append(items_db, new_item)
           /\ ItemStep(t, [threads[t] EXCEPT
                              !.pc = "done",
                              !.resp = [status |-> 201, body |-> new_item]])

\* edit_item / delete_item: item_index = next(...); 404 if it is None.
ItemLookup(t, method) ==
    /\ threads[t].pc = "idle"
    /\ \E item_id \in PathIds,
          data \in (IF method = "PUT" THEN ItemPayloads ELSE {None}) :
          LET i == item_index(items_db, item_id)
          IN  IF i = 0
              THEN ItemStep(t, ItemThread("done", method, item_id, data,
                                          0, 0, NotFound))
              ELSE ItemStep(t, ItemThread("write", method, item_id, data,
                                          i, 0, NoResponse))
    /\ UNCHANGED items_db

EditItemLookup(t) == ItemLookup(t, "PUT")

DeleteItemLookup(t) == ItemLookup(t, "DELETE")

\* edit_item: items_db[item_index] = updated_item
EditItemWrite(t) ==
    /\ threads[t].pc = "write"
    /\ threads[t].method = "PUT"
    /\ LET i == threads[t].local
           updated_item == Item(threads[t].item_id, threads[t].data)
       IN  IF i > Len(items_db)
           THEN /\ ItemStep(t, [threads[t] EXCEPT
                                   !.pc = "done", !.resp = InternalServerError])
                /\ UNCHANGED items_db
           ELSE /\ items_db' = [items_db EXCEPT ![i] = updated_item]
                /\ ItemStep(t, [threads[t] EXCEPT
                                   !.pc = "done",
                                   !.victim = items_db[i].id,
                                   !.resp = [status |-> 200,
                                             body |-> updated_item]])

\* delete_item: del items_db[item_index]
DeleteItemRemove(t) ==
    /\ threads[t].pc = "write"
    /\ threads[t].method = "DELETE"
    /\ LET i == threads[t].local
       IN  IF i > Len(items_db)
           THEN /\ ItemStep(t, [threads[t] EXCEPT
                                   !.pc = "done", !.resp = InternalServerError])
                /\ UNCHANGED items_db
           ELSE /\ items_db' = RemoveAt(items_db, i)
                /\ ItemStep(t, [threads[t] EXCEPT
                                   !.pc = "done",
                                   !.victim = items_db[i].id,
                                   !.resp = [status |-> 204, body |-> None]])

NextItemRace ==
    \E t \in Threads :
        \/ AddItemNextId(t) \/ AddItemAppend(t)
        \/ EditItemLookup(t) \/ EditItemWrite(t)
        \/ DeleteItemLookup(t) \/ DeleteItemRemove(t)

\* The bodies the racing /register requests carry: they pass the UserCreate
\* validation, so each reaches the handler.
RaceBodies ==
    { [username |-> username, email |-> email, full_name |-> None,
       password |-> password] :
        username \in RaceUsernames, email \in {"a@example.com"},
        password \in {PwFirst, PwSecond} }

\* A thread inside register_user.
RegisterThread(pc, user_data, resp) ==
    [pc |-> pc, user_data |-> user_data, resp |-> resp]

RegisterStep(t, thread) ==
    /\ threads' = [threads EXCEPT ![t] = thread]
    /\ UNCHANGED <<item_vars, users_before, auth_req, auth_resp, accepted,
                   svc_vars, db_requests>>

\* register_user: db_user = get_user(user_data.username); 400 if found.
RegisterLookup(t) ==
    /\ threads[t].pc = "idle"
    /\ \E user_data \in RaceBodies :
          IF get_user(users_db, user_data.username) # <<>>
          THEN RegisterStep(t, RegisterThread("done", user_data,
                   HTTPExceptionH(400, "Username already registered", None)))
          ELSE RegisterStep(t, RegisterThread("create", user_data,
                   [status |-> 0, body |-> None, headers |-> None]))
    /\ UNCHANGED users_db

\* register_user: created_user = create_user_in_db(user_data); return 201.
RegisterCreate(t) ==
    /\ threads[t].pc = "create"
    /\ \E salt \in Salts :
          users_db' = create_user_in_db(users_db, threads[t].user_data, salt)
    /\ RegisterStep(t, RegisterThread("done", threads[t].user_data,
           [status |-> 201, body |-> UserBase(threads[t].user_data),
            headers |-> None]))

NextRegisterRace == \E t \in Threads : RegisterLookup(t) \/ RegisterCreate(t)

Init == InitItems /\ InitAuth /\ InitUsers /\ InitDb /\ InitThreads

SpecItems == Init /\ [][NextItems]_vars

SpecAuth == Init /\ [][NextAuth]_vars

SpecUsers == Init /\ [][NextUsers]_vars

SpecRepo == Init /\ [][NextRepo]_vars

SpecBrowse == Init /\ [][NextBrowse]_vars

SpecRace == Init /\ [][NextRace]_vars

SpecDb == Init /\ [][NextDb]_vars

SpecItemRace == Init /\ [][NextItemRace]_vars

SpecRegisterRace == Init /\ [][NextRegisterRace]_vars

(***************************************************************************)
(* Properties of the item store (SpecItems)                                *)
(***************************************************************************)
ItemAbsentBefore == item_req.item_id \notin ItemIds(items_before)

\* C1: in every state reached from the three seeded items by POST, PUT and
\* DELETE requests served one after another, no two items of the list have
\* the same id.
C1_ItemIdsUnique ==
    \A i, j \in DOMAIN items_db : i # j => items_db[i].id # items_db[j].id

\* A POST served on a list with a gap below its maximum (an item was deleted
\* earlier), so the id handed out differs from the length of the list.
C1_Witness ==
    /\ item_req.method = "POST"
    /\ item_resp.status = 201
    /\ item_resp.body.id > Len(items_db)

\* C2: POST /items gives the new item the id (maximum id in the list) + 1, or
\* 1 when the list is empty, so an id above that of every item present; the
\* item is appended, and GET /items/{that id} right after returns the posted
\* name and description.
C2_PostAssignsNextId ==
    item_req.method = "POST" =>
        LET new == item_resp.body
            posted == Item(new.id, item_req.data)
        IN  /\ item_resp.status = 201
            /\ items_before = <<>> => new.id = 1
            /\ items_before # <<>> =>
                  /\ new.id - 1 \in ItemIds(items_before)
                  /\ \A x \in ItemIds(items_before) : x < new.id
            /\ items_db = Append(items_before, posted)
            /\ read_item(items_db, new.id) = [status |-> 200, body |-> posted]

\* A POST served on the empty list (every seeded item was deleted first).
C2_Witness ==
    /\ item_req.method = "POST"
    /\ items_before = <<>>
    /\ item_resp.body.id = 1

\* C3: after a DELETE /items/{id} answered 204, GET /items/{id} yields 404:
\* no item with that id remains in the list.
C3_DeleteThenGet404 ==
    (item_req.method = "DELETE" /\ item_resp.status = 204) =>
        /\ item_req.item_id \in ItemIds(items_before)
        /\ item_req.item_id \notin ItemIds(items_db)
        /\ read_item(items_db, item_req.item_id) = NotFound
        /\ NotFound.status = 404

\* A DELETE answered 204 for an item that was not the last of the list.
C3_Witness ==
    /\ item_req.method = "DELETE"
    /\ item_resp.status = 204
    /\ item_index(items_before, item_req.item_id) < Len(items_before)

\* C4: PUT /items/{id} on an id of the list replaces that item, in place, by
\* one with the same id and the supplied name and description; the length of
\* the list, the order of the items and every other item are unchanged.
C4_PutReplacesInPlace ==
    (item_req.method = "PUT" /\ ~ItemAbsentBefore) =>
        /\ item_resp = [status |-> 200, body |-> Item(item_req.item_id, item_req.data)]
        /\ Len(items_db) = Len(items_before)
        /\ \A i \in DOMAIN items_before :
              /\ items_db[i].id = items_before[i].id
              /\ items_before[i].id # item_req.item_id => items_db[i] = items_before[i]
              /\ items_before[i].id = item_req.item_id =>
                    items_db[i] = Item(item_req.item_id, item_req.data)

\* A PUT answered 200 that changed an item followed by other items.
C4_Witness ==
    /\ item_req.method = "PUT"
    /\ item_resp.status = 200
    /\ items_db # items_before
    /\ item_index(items_before, item_req.item_id) < Len(items_before)

\* C5: GET, PUT and DELETE on /items/{id} for an id that is not in the list
\* each fail with 404 and detail "Item not found", and leave the list as it
\* was (same items, same order).
C5_AbsentIdIs404 ==
    (item_req.method \in {"GET", "PUT", "DELETE"} /\ ItemAbsentBefore) =>
        /\ item_resp = [status |-> 404, body |-> [detail |-> "Item not found"]]
        /\ items_db = items_before

\* A PUT for an id that is not in the (non-empty) list was answered.
C5_Witness ==
    /\ item_req.method = "PUT"
    /\ ItemAbsentBefore
    /\ items_before # <<>>
    /\ item_resp.status = 404

(***************************************************************************)
(* Properties of /register and /login (SpecAuth)                           *)
(***************************************************************************)
Credentials(u, p) == [username |-> u, password |-> p]

AcceptedPasswords(u) == { pair[2] : pair \in { q \in accepted : q[1] = u } }

DuplicateRegister ==
    /\ auth_req.kind = "register"
    /\ auth_req.username \in DOMAIN users_before

\* C6: a POST /register whose username is already registered is rejected
\* with 400 (a body that fails the password validator is turned away with 422
\* before the handler runs); the stored record of that username, its digest
\* included, is what it was before the request, so the first registrant's
\* password still logs in and a different password sent in the rejected
\* request does not.
C6_DuplicateUsernameRejected ==
    DuplicateRegister =>
        LET u == auth_req.username
        IN  /\ password_complexity(auth_req.password) = None =>
                  auth_resp = HTTPExceptionH(400, "Username already registered", None)
            /\ auth_resp.status \in {400, 422}
            /\ users_db = users_before
            /\ users_db[u] = users_before[u]
            /\ AcceptedPasswords(u) # {}
            /\ \A p \in AcceptedPasswords(u) :
                  login_user(users_db, Credentials(u, p)).status = 200
            /\ auth_req.password \notin AcceptedPasswords(u) =>
                  login_user(users_db, Credentials(u, auth_req.password)).status = 401

\* A second registration of a username, with another valid password, was
\* answered 400.
C6_Witness ==
    /\ DuplicateRegister
    /\ auth_resp.status = 400
    /\ auth_req.password \notin AcceptedPasswords(auth_req.username)

ReusedEmailRegister ==
    /\ auth_req.kind = "register"
    /\ auth_req.username \notin DOMAIN users_before
    /\ password_complexity(auth_req.password) = None
    /\ auth_req.email # None
    /\ \E k \in DOMAIN users_before : users_before[k].email = auth_req.email

\* C7: a POST /register with a username not yet registered but the email of
\* an already registered user is rejected with 400 and creates no user
\* record.
C7_ReusedEmailRejected ==
    ReusedEmailRegister =>
        /\ auth_resp.status = 400
        /\ users_db = users_before

\* C8: from any reachable user store, POST /login with a registered username
\* and a wrong password and POST /login with an unregistered username get
\* the same response: status 401, detail "Incorrect username or password",
\* the same headers.
C8_LoginFailuresIndistinguishable ==
    \A u1 \in DOMAIN users_db, u2 \in Usernames \ DOMAIN users_db :
        \A p1, p2 \in Passwords :
            ~verify_password(p1, users_db[u1].hashed_password) =>
                /\ login_user(users_db, Credentials(u1, p1))
                      = login_user(users_db, Credentials(u2, p2))
                /\ login_user(users_db, Credentials(u1, p1)).status = 401
                /\ login_user(users_db, Credentials(u2, p2)).body
                      = [detail |-> "Incorrect username or password"]

\* A login with a registered username and a wrong password was answered 401
\* while some other username is still unregistered.
C8_Witness ==
    /\ auth_req.kind = "login"
    /\ auth_req.username \in DOMAIN users_db
    /\ auth_resp.status = 401
    /\ Usernames \ DOMAIN users_db # {}

\* C9: after any sequence of /register and /login requests, POST /login with
\* (u, p) returns 200 exactly when a registration of u was answered 201 and p
\* is the password of that registration, and 401 otherwise; no /login
\* request changes the user store.
C9_LoginIffAcceptedPassword ==
    /\ \A u \in Usernames, p \in Passwords :
          login_user(users_db, Credentials(u, p)).status
              = IF <<u, p>> \in accepted THEN 200 ELSE 401
    /\ auth_req.kind = "login" =>
          /\ users_db = users_before
          /\ auth_resp.status
                = IF <<auth_req.username, auth_req.password>> \in accepted
                  THEN 200 ELSE 401

\* A login was answered 200 while at least two users are registered and the
\* password used is not the password of one of the others.
C9_Witness ==
    /\ auth_req.kind = "login"
    /\ auth_resp.status = 200
    /\ Cardinality(DOMAIN users_db) >= 2
    /\ \E u \in DOMAIN users_db : <<u, auth_req.password>> \notin accepted

(***************************************************************************)
(* Properties of the user service (SpecUsers)                              *)
(***************************************************************************)
\* C10: in every state reached by UserService.create_user, update_user and
\* delete_user calls made one after another, no two stored user records have
\* the same username and no two have the same email.
C10_UsernameAndEmailUnique ==
    \A r1, r2 \in users_table :
        r1 # r2 => (r1.username # r2.username /\ r1.email # r2.email)

\* Two users are stored and an update_user that passed the service's own
\* checks was turned down by the table's constraint.
C10_Witness ==
    /\ Cardinality(users_table) = 2
    /\ svc_call.op = "update_user"
    /\ svc_result = IntegrityError

\* C11: create_user called with a username some stored record has fails with
\* the "username taken" validation error, whatever the email; called with a
\* fresh username and an email some stored record has it fails with the "email
\* registered" validation error; either way no commit was made and the store
\* is as it was.
C11_DuplicateCreateRejected ==
    svc_call.op = "create_user" =>
        LET username_stored ==
                \E r \in table_before : r.username = svc_call.username
            email_stored ==
                \E r \in table_before : r.email = svc_call.email
        IN  /\ username_stored =>
                /\ svc_result = UsernameIsTaken(svc_call.username)
                /\ users_table = table_before
                /\ svc_effects = [hashes |-> 0, commits |-> 0]
            /\ (~username_stored /\ email_stored) =>
                /\ svc_result = EmailIsRegistered(svc_call.email)
                /\ users_table = table_before
                /\ svc_effects = [hashes |-> 0, commits |-> 0]

\* A create_user whose username and email are both stored already: the
\* username is the one reported.
C11_Witness ==
    /\ svc_call.op = "create_user"
    /\ \E r \in table_before : r.username = svc_call.username
    /\ \E r \in table_before : r.email = svc_call.email
    /\ svc_result = UsernameIsTaken(svc_call.username)

\* A create_user with a fresh username whose email is stored already.
C11_WitnessEmail ==
    /\ svc_call.op = "create_user"
    /\ ~ \E r \in table_before : r.username = svc_call.username
    /\ svc_result = EmailIsRegistered(svc_call.email)

\* The update_user call just made, seen against the store it was made on.
UpdateTarget == get_by_id(table_before, svc_call.user_id)

UsernameConflict ==
    LET new_username == kwargs_get(svc_call.kwargs, "username")
    IN  /\ new_username # <<>>
        /\ \E r \in table_before :
              r.id # svc_call.user_id /\ r.username = new_username[1]

EmailConflict ==
    LET new_email == kwargs_get(svc_call.kwargs, "email")
    IN  /\ new_email # <<>>
        /\ \E r \in table_before :
              r.id # svc_call.user_id /\ r.email = new_email[1]

\* C15: update_user with an id that is not stored returns None and leaves the
\* store as it was; with a stored id and a username held by a different
\* record it raises the "username taken" validation error of create_user,
\* otherwise with an email held by a different record the "email registered"
\* one, and every record is as it was; with neither it raises nothing, so a
\* user's own current username and email are never rejected.
C15_UpdateUserChecks ==
    svc_call.op = "update_user" =>
        /\ UpdateTarget = <<>> =>
              /\ svc_result = Returned(None)
              /\ users_table = table_before
        /\ (UpdateTarget # <<>> /\ UsernameConflict) =>
              /\ svc_result
                    = UsernameIsTaken(kwargs_get(svc_call.kwargs, "username")[1])
              /\ users_table = table_before
        /\ (UpdateTarget # <<>> /\ ~UsernameConflict /\ EmailConflict) =>
              /\ svc_result
                    = EmailIsRegistered(kwargs_get(svc_call.kwargs, "email")[1])
              /\ users_table = table_before
        /\ (UpdateTarget # <<>> /\ ~UsernameConflict /\ ~EmailConflict) =>
              "returned" \in DOMAIN svc_result

\* C16: delete_user and UserRepository.delete return True exactly when a
\* record with the id was stored before the call; after True the id is no
\* longer found and the other records are as they were, after False the store
\* is as it was.
C16_DeleteReportsAndRemoves ==
    /\ svc_call.op = "delete_user" =>
          LET stored == \E r \in table_before : r.id = svc_call.user_id
          IN  /\ svc_result = Returned(stored)
              /\ get_by_id(users_table, svc_call.user_id) = <<>>
              /\ users_table = { r \in table_before : r.id # svc_call.user_id }
    /\ \A user_id \in UserIds :
          LET stored == \E r \in users_table : r.id = user_id
              out == repo_delete(users_table, user_id)
          IN  /\ out.result = Returned(stored)
              /\ get_by_id(out.table, user_id) = <<>>
              /\ out.table = { r \in users_table : r.id # user_id }

\* delete_user removed one of two stored users and returned True.
C16_Witness ==
    /\ svc_call.op = "delete_user"
    /\ svc_result = Returned(TRUE)
    /\ Cardinality(table_before) = 2
    /\ Cardinality(users_table) = 1

\* delete_user with an id that is not stored, on a store that is not empty.
C16_WitnessAbsent ==
    /\ svc_call.op = "delete_user"
    /\ svc_result = Returned(FALSE)
    /\ users_table # {}

\* The call just made is one the service has to reject: an update_user of an
\* id that is not stored, or a create_user or update_user with a username or
\* an email that another record holds.
RejectedCall ==
    \/ /\ svc_call.op = "create_user"
       /\ \E r \in table_before :
             r.username = svc_call.username \/ r.email = svc_call.email
    \/ /\ svc_call.op = "update_user"
       /\ UpdateTarget = <<>> \/ UsernameConflict \/ EmailConflict

\* C19: a create_user or update_user call that is rejected because the id is
\* not found or the username or email is taken has not run the hasher and has
\* written nothing.
C19_RejectedBeforeHashAndWrite ==
    RejectedCall =>
        /\ svc_effects.hashes = 0
        /\ users_table = table_before

(***************************************************************************)
(* Properties of the user repository (SpecRepo)                            *)
(***************************************************************************)
\* C12: UserRepository.update, called with any field map whose keys are
\* attributes of User, returns the user with the id it had, and the ids
\* stored after the call are the ids stored before it.
C12_IdNeverChanges ==
    (svc_call.op = "update" /\ Keys(svc_call.kwargs) \subseteq UserAttributes
                            /\ "returned" \in DOMAIN svc_result) =>
        /\ svc_result.returned.id = svc_call.user.id
        /\ { r.id : r \in users_table } = { r.id : r \in table_before }

\* The outputs of the password hasher.
Digests == { get_password_hash(p, salt) : p \in Passwords, salt \in Salts }

\* C13: after any sequence of add and update calls with any field maps, the
\* hashed_password of every stored user is an output of the password hasher.
C13_StoredPasswordsAreDigests ==
    \A r \in users_table : r.hashed_password \in Digests

\* The update call just made carries a password and no other key.
OnlyPassword ==
    /\ svc_call.op = "update"
    /\ Keys(svc_call.kwargs) = {"password"}
    /\ kwargs_get(svc_call.kwargs, "password") # <<>>

\* C14: UserRepository.update called with only a password returns the user
\* with username, email and full_name as they were and with hashed_password
\* the hasher's digest of the new password, which differs from the stored
\* one unless the hasher returned the stored digest itself; called with a
\* field map that has no password key it returns the user with
\* hashed_password as it was.
C14_PasswordFrame ==
    (svc_call.op = "update" /\ "returned" \in DOMAIN svc_result) =>
        LET before == svc_call.user
            after == svc_result.returned
            digest == get_password_hash(
                          kwargs_get(svc_call.kwargs, "password")[1],
                          svc_call.salt)
        IN  /\ OnlyPassword =>
                /\ after.username = before.username
                /\ after.email = before.email
                /\ after.full_name = before.full_name
                /\ after.hashed_password = digest
                /\ after.hashed_password # before.hashed_password
                      \/ before.hashed_password = digest
            /\ "password" \notin Keys(svc_call.kwargs) =>
                  after.hashed_password = before.hashed_password

Range(seq) == { seq[i] : i \in DOMAIN seq }

\* C17: with n stored users, browse(skip, limit) returns exactly
\* min(limit, max(0, n - skip)) users, and for every k the pages browse(0, k)
\* and browse(k, k), each read by a query of its own, have no user in common
\* and together hold min(n, 2k) distinct users.
C17_BrowsePages ==
    LET n == Cardinality(users_table)
    IN  \A first_scan, second_scan \in ScanOrders(users_table) :
          /\ \A skip, limit \in 0..MaxPage :
                Len(browse(first_scan, skip, limit))
                    = Min(limit, Max(0, n - skip))
          /\ \A k \in 0..MaxPage :
                LET first_page == Range(browse(first_scan, 0, k))
                    second_page == Range(browse(second_scan, k, k))
                IN  /\ first_page \cap second_page = {}
                    /\ Cardinality(first_page \cup second_page) = Min(n, 2 * k)

\* C20: UserRepository.update changes only attributes named by a key of the
\* map that is recognised and has a non-null value (hashed_password for the
\* key password); it calls commit exactly when one of those keys carried a
\* value different from the user's current one, and otherwise leaves the
\* store alone and returns the user as it was.
C20_UpdateCommitsIffChanged ==
    svc_call.op = "update" =>
        LET user == svc_call.user
            kwargs == svc_call.kwargs
            digest == get_password_hash(kwargs_get(kwargs, "password")[1],
                                        svc_call.salt)
            Differs(i) ==
                /\ kwargs[i][2] # <<>>
                /\ IF kwargs[i][1] = "password"
                   THEN digest # user.hashed_password
                   ELSE /\ kwargs[i][1] \in UserAttributes
                        /\ user[kwargs[i][1]] # kwargs[i][2][1]
            changed == \E i \in DOMAIN kwargs : Differs(i)
            Names(i, attr) ==
                /\ kwargs[i][2] # <<>>
                /\ \/ kwargs[i][1] = attr
                   \/ kwargs[i][1] = "password" /\ attr = "hashed_password"
        IN  /\ svc_effects.commits = (IF changed THEN 1 ELSE 0)
            /\ ~changed =>
                  /\ svc_result = Returned(user)
                  /\ users_table = table_before
            /\ "returned" \in DOMAIN svc_result =>
                  LET after == svc_result.returned
                  IN  /\ DOMAIN after = DOMAIN user
                      /\ \A attr \in UserAttributes :
                            after[attr] # user[attr] =>
                                \E i \in DOMAIN kwargs : Names(i, attr)
                      /\ users_table = (table_before \ {user}) \cup {after}

\* An update whose map carries a recognised key with a non-null value, the
\* user's current one: nothing was committed.
C20_Witness ==
    /\ svc_call.op = "update"
    /\ \E i \in DOMAIN svc_call.kwargs :
          /\ svc_call.kwargs[i][2] # <<>>
          /\ svc_call.kwargs[i][1] \in UserAttributes
    /\ svc_effects.commits = 0
    /\ svc_result = Returned(svc_call.user)

\* An update with a null and an unrecognised key besides a changed one.
C20_WitnessCommitted ==
    /\ svc_call.op = "update"
    /\ "nickname" \in Keys(svc_call.kwargs)
    /\ svc_effects.commits = 1
    /\ "returned" \in DOMAIN svc_result

(***************************************************************************)
(* Properties of concurrent create_user calls (SpecRace)                   *)
(***************************************************************************)
Succeeded(s) == sessions[s].pc = "done" /\ "returned" \in DOMAIN sessions[s].result

\* Both calls are over and they asked for the same username.
RaceOver ==
    /\ \A s \in Sessions : sessions[s].pc = "done"
    /\ \A s, t \in Sessions : sessions[s].username = sessions[t].username

C18_WitnessLate ==
    /\ RaceOver
    /\ \E s \in Sessions : sessions[s].result = UsernameIsTaken(sessions[s].username)

(***************************************************************************)
(* Reuse of item ids (SpecItems)                                           *)
(***************************************************************************)
\* A POST served right after a DELETE that removed the highest id.
PostAfterDeletedMax ==
    /\ item_req.method = "POST"
    /\ deleted_max # 0

\* C22: when the item with the highest id is deleted and a new item is then
\* added, the new item receives the id of the deleted item.
C22_NewItemTakesDeletedId ==
    PostAfterDeletedMax => item_resp.body.id = deleted_max

\* C22 as amended: when the item with the highest id is deleted and a new
\* item is then added, the new item receives one more than the highest id
\* left (1 if none is left); that is never more than the deleted id, and it
\* is the deleted id exactly when the highest id left is one below it or no
\* item is left and the deleted id was 1.
C22_NewItemTakesNextAfterRemaining ==
    PostAfterDeletedMax =>
        LET remaining == ItemIds(items_before)
            expected == IF remaining = {} THEN 1 ELSE SetMax(remaining) + 1
        IN  /\ item_resp.body.id = expected
            /\ item_resp.body.id <= deleted_max
            /\ item_resp.body.id = deleted_max
                  <=> \/ remaining = {} /\ deleted_max = 1
                      \/ remaining # {} /\ SetMax(remaining) = deleted_max - 1

\* The id of the item just deleted has been issued again.
C22_Witness ==
    /\ PostAfterDeletedMax
    /\ item_resp.body.id = deleted_max

\* The new item got an id below the one just deleted.
C22_WitnessLower ==
    /\ PostAfterDeletedMax
    /\ item_resp.body.id < deleted_max

(***************************************************************************)
(* Properties of get_db (SpecDb)                                           *)
(***************************************************************************)
\* C21: a session handed out by get_db is never closed more than once and,
\* when its request has ended, by return or by exception, it has been closed
\* exactly once; once every request has ended no session is open.
C21_SessionClosedOnce ==
    /\ \A r \in Requests :
          /\ db_requests[r].closed <= db_requests[r].opened
          /\ db_requests[r].opened <= 1
          /\ db_requests[r].pc = "ended" =>
                /\ db_requests[r].opened = 1
                /\ db_requests[r].closed = 1
    /\ (\A r \in Requests : db_requests[r].pc = "ended") =>
          \A r \in Requests : db_requests[r].opened - db_requests[r].closed = 0

\* Every request has ended, one by an exception and one by a return.
C21_Witness ==
    /\ \A r \in Requests : db_requests[r].pc = "ended"
    /\ \E r \in Requests : db_requests[r].outcome = "raised"
    /\ \E r \in Requests : db_requests[r].outcome = "returned"

(***************************************************************************)
(* Properties of concurrent /items requests (SpecItemRace)                 *)
(***************************************************************************)
\* C23: while POST /items requests run side by side, each computing its id
\* and appending in separate steps, the list never holds two items with the
\* same id.
C23_ConcurrentPostsKeepIdsDistinct ==
    Cardinality(ItemIds(items_db)) = Len(items_db)

\* The thread has finished a PUT with 200 or a DELETE with 204.
Wrote(t) ==
    /\ threads[t].pc = "done"
    /\ \/ threads[t].method = "PUT" /\ threads[t].resp.status = 200
       \/ threads[t].method = "DELETE" /\ threads[t].resp.status = 204

\* C25: while PUT and DELETE requests run side by side, each looking the
\* index up and writing at it in separate steps, the item a PUT answered 200
\* has overwritten and the item a DELETE answered 204 has removed is the item
\* with the requested id.
C25_WritesHitRequestedId ==
    \A t \in Threads : Wrote(t) => threads[t].victim = threads[t].item_id

(***************************************************************************)
(* Properties of concurrent /register requests (SpecRegisterRace)          *)
(***************************************************************************)
Created(t) == threads[t].pc = "done" /\ threads[t].resp.status = 201

\* Two /register requests for one username with different passwords have
\* both been answered.
RegisterRaceOver ==
    /\ \A t \in Threads : threads[t].pc = "done"
    /\ \E t1, t2 \in Threads :
          /\ t1 # t2
          /\ threads[t1].user_data.username = threads[t2].user_data.username
          /\ threads[t1].user_data.password # threads[t2].user_data.password

\* C24: when two POST /register requests for the same, not yet registered
\* username and different passwords have run side by side, at most one of
\* them was answered 201, and /login for a requested username succeeds only
\* with the password of a request answered 201 for it.
C24_OneRegistrationWins ==
    RegisterRaceOver =>
        \A t1, t2 \in Threads :
            (t1 # t2 /\ threads[t1].user_data.username
                           = threads[t2].user_data.username) =>
                /\ ~(Created(t1) /\ Created(t2))
                /\ \A p \in Passwords :
                      login_user(users_db,
                                 Credentials(threads[t1].user_data.username, p)
                                ).status = 200
                          => \E t \in {t1, t2} :
                                Created(t) /\ threads[t].user_data.password = p

====
